---- MODULE Spec2Model ----
(***************************************************************************)
(* Model of scrape_gi_data.py: download one HTML page, locate the table    *)
(* 'tablepress-1', read its header and body rows, validate every row       *)
(* against the GIEntry schema and write the accepted records to            *)
(* gi_data.csv.                                                            *)
(*                                                                         *)
(* A Python str is a sequence of tokens: " " and "\n" are whitespace       *)
(* characters, any other token is a run of text that begins and ends with  *)
(* a non-whitespace character.  The empty str is << >>.                     *)
(* An optional element (a tag that may be absent) is a sequence of length  *)
(* 0 or 1.  A CSV file is the sequence of its records, each record the     *)
(* sequence of its field texts.                                            *)
(***************************************************************************)
EXTENDS Integers, Sequences, FiniteSets, TLC

\* ------------------------------------------------------------------ bounds
MaxRows == 2
MaxExtraCells == 1
MaxOtherTables == 1

\* ------------------------------------------------------------ str helpers
Whitespace == {" ", "\n"}

RECURSIVE lstrip(_)
lstrip(s) ==
    IF s = << >> THEN << >>
    ELSE IF Head(s) \in Whitespace THEN lstrip(Tail(s)) ELSE s

RECURSIVE rstrip(_)
rstrip(s) ==
    IF s = << >> THEN << >>
    ELSE IF s[Len(s)] \in Whitespace THEN rstrip(SubSeq(s, 1, Len(s) - 1)) ELSE s

\* str.strip()
strip(s) == rstrip(lstrip(s))

\* Tag.get_text(strip=True): every text node stripped, empty ones dropped,
\* the rest joined with the empty separator.
RECURSIVE get_text(_)
get_text(nodes) ==
    IF nodes = << >> THEN << >>
    ELSE strip(Head(nodes)) \o get_text(Tail(nodes))

Max(S) == CHOOSE m \in S : \A x \in S : x <= m
Min(S) == CHOOSE m \in S : \A x \in S : m <= x
Range(f) == {f[x] : x \in DOMAIN f}

\* ------------------------------------------------------------- Python values
PyStr(t) == [type |-> "str", val |-> t]
PyNone == [type |-> "NoneType", val |-> << >>]

\* -------------------------------------------------------------- the schema
\* GIEntry: the fields in declaration order, each with its alias.
Fields == <<
    [name |-> "food_name",       alias |-> <<"Food Name">>],
    [name |-> "gi",              alias |-> <<"GI">>],
    [name |-> "manufacturer",    alias |-> <<"Food Manufacturer">>],
    [name |-> "category",        alias |-> <<"Product Category">>],
    [name |-> "country",         alias |-> <<"Country of food production">>],
    [name |-> "serving_size",    alias |-> <<"Serving Size (g)">>],
    [name |-> "carbs_portion",
     alias |-> <<"Carbohydrate portion (g) or Average Carbohydrate portion (g)">>],
    [name |-> "gl",              alias |-> <<"GL">>],
    [name |-> "reference",       alias |-> <<"Reference:">>],
    [name |-> "subjects_type",   alias |-> <<"Subjects type">>],
    [name |-> "time",            alias |-> <<"Time">>],
    [name |-> "subjects_number", alias |-> <<"Subjects Number">>],
    [name |-> "year",            alias |-> <<"Year of test">>] >>

FieldNames == {Fields[k].name : k \in DOMAIN Fields}
Aliases == {Fields[k].alias : k \in DOMAIN Fields}
NameOf(alias) == Fields[CHOOSE k \in DOMAIN Fields : Fields[k].alias = alias].name

\* mutant: the validator returns None for a blank value, as its name says
empty_to_none_literal(v) ==
    IF v.type = "str" /\ strip(v.val) = << >> THEN PyNone ELSE v

\* @field_validator("*", mode="before") empty_to_none
empty_to_none(v) ==
    IF v.type = "str" /\ strip(v.val) = << >> THEN PyStr(<< >>) ELSE v

\* Validation of one `str` field after the before-validator has run.
str_type_ok(v) == v.type = "str"

\* GIEntry(**kwargs) under pydantic's defaults (unknown keys are ignored,
\* fields are populated by alias only).  << >> stands for ValidationError,
\* <<m>> for the model instance m, a mapping from field name to value.
GIEntry(kwargs) ==
    LET errors == {k \in DOMAIN Fields :
                      \/ Fields[k].alias \notin DOMAIN kwargs
                      \/ ~str_type_ok(empty_to_none(PyStr(kwargs[Fields[k].alias])))}
    IN  IF errors # {} THEN << >>
        ELSE << [n \in FieldNames |->
                   LET k == CHOOSE j \in DOMAIN Fields : Fields[j].name = n
                   IN  empty_to_none(PyStr(kwargs[Fields[k].alias]))] >>

\* mutant: fields holding the empty string are left out of the dump
model_dump_drop_empty(m) ==
    [a \in {x \in Aliases : m[NameOf(x)].val # << >>} |-> m[NameOf(a)]]

\* entry.model_dump(by_alias=True)
model_dump(m) == [a \in Aliases |-> m[NameOf(a)]]

\* ------------------------------------------------------- row reconciliation
\* mutant: pads short rows but never cuts long ones
reconcile_no_cut(d, ncols) ==
    IF Len(d) < ncols THEN d \o [j \in 1..(ncols - Len(d)) |-> << >>] ELSE d

\* lines 98-102: pad with "" or cut to the number of columns
reconcile(d, ncols) ==
    IF Len(d) < ncols THEN d \o [j \in 1..(ncols - Len(d)) |-> << >>]
    ELSE IF Len(d) > ncols THEN SubSeq(d, 1, ncols)
    ELSE d

\* mutant: the first pair with a key is kept
dict_zip_first_wins(keys, vals) ==
    LET n == Min({Len(keys), Len(vals)})
    IN  [k \in {keys[j] : j \in 1..n} |-> vals[Min({j \in 1..n : keys[j] = k})]]

\* dict(zip(keys, vals)): pairs up to the shorter length, a later pair
\* with the same key replaces the earlier one.
dict_zip(keys, vals) ==
    LET n == Min({Len(keys), Len(vals)})
    IN  [k \in {keys[j] : j \in 1..n} |-> vals[Max({j \in 1..n : keys[j] = k})]]

\* [cell.get_text(strip=True) for cell in cells]
cell_texts(cells) == [j \in 1..Len(cells) |-> get_text(cells[j])]

\* ---------------------------------------------------------------- csv
\* The csv writer's rendering of a field value: None is written as "".
csv_field(v) == IF v.type = "NoneType" THEN << >> ELSE v.val

\* mutant: the fields are written in the record's own key order
dict_to_list_key_order(rowdict, fieldnames) ==
    IF DOMAIN rowdict \ Range(fieldnames) # {} THEN << >>
    ELSE << [j \in 1..Len(fieldnames) |->
               IF j <= Len(Fields) /\ Fields[j].alias \in DOMAIN rowdict
               THEN csv_field(rowdict[Fields[j].alias])
               ELSE << >>] >>

\* DictWriter._dict_to_list: keys of the row that are not fieldnames raise
\* ValueError (<< >>); otherwise one field per fieldname, restval "" for a
\* fieldname the row has no key for.
dict_to_list(rowdict, fieldnames) ==
    IF DOMAIN rowdict \ Range(fieldnames) # {} THEN << >>
    ELSE << [j \in 1..Len(fieldnames) |->
               IF fieldnames[j] \in DOMAIN rowdict
               THEN csv_field(rowdict[fieldnames[j]])
               ELSE << >>] >>

\* mutant: no header record is written
writeheader_skipped(fieldnames) == << >>

\* DictWriter.writeheader: the fieldnames themselves as the first record.
writeheader(fieldnames) == << fieldnames >>

\* DictWriter.writerows: the records of the rows in order, stopping at the
\* first row that raises.  ok is FALSE when a row raised.
RECURSIVE writerows(_, _)
writerows(rowdicts, fieldnames) ==
    IF rowdicts = << >> THEN [ok |-> TRUE, records |-> << >>]
    ELSE LET r == dict_to_list(Head(rowdicts), fieldnames)
         IN  IF r = << >> THEN [ok |-> FALSE, records |-> << >>]
             ELSE LET rest == writerows(Tail(rowdicts), fieldnames)
                  IN  [ok |-> rest.ok, records |-> r \o rest.records]

\* ---------------------------------------------------------------- http
Statuses == {200, 304, 404, 500}

\* mutant: only 4xx and 5xx are errors
is_success_lax(s) == s < 400

\* Response.raise_for_status() returns normally exactly for 2xx.
is_success(s) == 200 <= s /\ s <= 299

\* ------------------------------------------------------- the pages served
CellWords == << "Apple", "40", "Acme", "Fruit", "Australia", "120", "15", "6",
                "Smith 2008", "Normal", "2h", "10", "2008", "over1", "over2" >>
Word(j) == CellWords[((j - 1) % Len(CellWords)) + 1]

\* A <td>, as the sequence of its text nodes.
MakeCell(style, j) ==
    CASE style = "plain"  -> << <<Word(j)>> >>
      [] style = "ragged" ->
            IF j % 4 = 1 THEN << <<Word(j), " ">>, <<"\n", "x">> >>
            ELSE IF j % 4 = 2 THEN << <<" ", Word(j), " ", "!", "\n">> >>
            ELSE IF j % 4 = 3 THEN << <<" ", "\n">> >>
            ELSE << >>

RowStyles == {"plain", "ragged"}
CellCounts == {0, 3, Len(Fields)} \cup {Len(Fields) + e : e \in 1..MaxExtraCells}

\* A <tr>, as the sequence of its <td> cells.
MakeRow(style, n) == [j \in 1..n |-> MakeCell(style, j)]
Rows == {MakeRow(st, n) : st \in RowStyles, n \in CellCounts}
RowSeqs == UNION {[1..n -> Rows] : n \in 0..MaxRows}

\* A <th> holding one text node.
Th(label) == << label >>
SchemaHeader == [k \in DOMAIN Fields |-> Th(Fields[k].alias)]
Reversed(s) == [j \in 1..Len(s) |-> s[Len(s) + 1 - j]]
DropAt(s, k) == SubSeq(s, 1, k - 1) \o SubSeq(s, k + 1, Len(s))

HeaderChoices == {
    SchemaHeader,
    Reversed([k \in DOMAIN Fields |-> Th(<<" ">> \o Fields[k].alias \o <<"\n">>)]),
    DropAt(SchemaHeader, 1),
    DropAt(SchemaHeader, Len(Fields)),
    SchemaHeader \o << Th(<<"Notes">>) >>,
    << Th(<<"Notes">>) >> \o SchemaHeader,
    SchemaHeader \o << Th(<<"GI">>) >>,
    << Th(<<"Year of test">>) >> \o SchemaHeader,
    << >>,
    SubSeq(SchemaHeader, 1, 3),
    [SchemaHeader EXCEPT ![2] = << >>],
    [SchemaHeader EXCEPT ![1] = Th(<<"food_name">>)] }

\* The parsed document: how many tables other than 'tablepress-1' it has,
\* and the optional table with its optional <thead> (the <th> cells) and
\* optional <tbody> (the <tr> rows).
Pages ==
    [other : 0..MaxOtherTables, table : {<< >>}]
    \cup
    [other : {0},
     table : {<< [thead |-> h, tbody |-> b] >> :
                 h \in {<< >>} \cup {<<x>> : x \in HeaderChoices},
                 b \in {<< >>} \cup {<<x>> : x \in RowSeqs}}]

\* ---------------------------------------------------------------- files
NoFile == [exists |-> FALSE, records |-> << >>]
OldFile == [exists |-> TRUE, records |-> << << <<"stale">> >> >>]

\* ---------------------------------------------------------------- state
VARIABLES
    pc,            \* Fetching, Parsing, Extracting, Validating, Writing, Done, Failed
    page,          \* what the server serves at the url
    status,        \* optional status code of the response received
    table,         \* optional table found by soup.find
    column_names,  \* list of str
    rows,          \* tbody.find_all("tr")
    i,             \* number of rows the loop has consumed
    data,          \* list of str, the loop's local
    row_dict,      \* dict str -> str, the loop's local
    entries,       \* list of dict str -> value
    outcome,       \* per consumed row: "skipped", "accepted" or "rejected"
    stdout,        \* the diagnostics printed so far
    file,          \* gi_data.csv
    file0,         \* gi_data.csv as it was when the run started
    opened,        \* whether open(output_csv, 'w') has returned a file
    exit_code      \* optional exit status of the process

vars == << pc, page, status, table, column_names, rows, i, data, row_dict,
           entries, outcome, stdout, file, file0, opened, exit_code >>

Init ==
    /\ pc = "Fetching"
    /\ page \in Pages
    /\ status = << >>
    /\ table = << >>
    /\ column_names = << >>
    /\ rows = << >>
    /\ i = 0
    /\ data = << >>
    /\ row_dict = [k \in {} |-> << >>]
    /\ entries = << >>
    /\ outcome = << >>
    /\ stdout = << "Downloading data" >>
    /\ file0 \in {NoFile, OldFile}
    /\ file = file0
    /\ opened = FALSE
    /\ exit_code = << >>

\* sys.exit(code)
sys_exit(code) ==
    /\ pc' = IF code = 0 THEN "Done" ELSE "Failed"
    /\ exit_code' = << code >>

loop_locals == << i, data, row_dict, entries, outcome >>

\* ---------------------------------------------------------------- fetch
\* client.get(url) returned a response and raise_for_status() passed
FetchOk ==
    /\ pc = "Fetching"
    /\ \E s \in Statuses :
         /\ is_success(s)
         /\ status' = << s >>
    /\ pc' = "Parsing"
    /\ UNCHANGED << page, table, column_names, rows, loop_locals, stdout,
                    file, file0, opened, exit_code >>

\* raise_for_status() raised httpx.HTTPStatusError
FetchStatusError ==
    /\ pc = "Fetching"
    /\ \E s \in Statuses :
         /\ ~is_success(s)
         /\ status' = << s >>
    /\ stdout' = Append(stdout, "HTTP error occurred")
    /\ sys_exit(1)
    /\ UNCHANGED << page, table, column_names, rows, loop_locals,
                    file, file0, opened >>

\* client.get(url) raised (timeout, connection error, too many redirects)
FetchTransportError ==
    /\ pc = "Fetching"
    /\ stdout' = Append(stdout, "An error occurred")
    /\ sys_exit(1)
    /\ UNCHANGED << page, status, table, column_names, rows, loop_locals,
                    file, file0, opened >>

\* ---------------------------------------------------------------- locate
\* `if not table`
table_absent(t) == t = << >>

LocateTable ==
    /\ pc = "Parsing"
    /\ table' = page.table
    /\ IF table_absent(page.table)
       THEN /\ stdout' = stdout \o << "Error: Could not find table" >>
                           \o (IF page.other > 0 THEN << "Found other tables" >>
                               ELSE << >>)
            /\ sys_exit(1)
       ELSE /\ pc' = "Extracting"
            /\ UNCHANGED << stdout, exit_code >>
    /\ UNCHANGED << page, status, column_names, rows, loop_locals,
                    file, file0, opened >>

\* --------------------------------------------------------------- extract
\* `if not thead or not hasattr(thead, "find_all")`
thead_missing(t) == t.thead = << >>

\* `if not tbody or not hasattr(tbody, "find_all")`
tbody_missing(t) == t.tbody = << >>

\* lines 69-86: the header names, then the body rows
Extract ==
    /\ pc = "Extracting"
    /\ LET t == table[1] IN
       IF thead_missing(t)
       THEN /\ stdout' = Append(stdout, "Error: Table has no thead")
            /\ sys_exit(1)
            /\ UNCHANGED << column_names, rows >>
       ELSE /\ column_names' = cell_texts(t.thead[1])
            /\ IF tbody_missing(t)
               THEN /\ stdout' = stdout \o << "Found columns",
                                              "Error: Table has no tbody" >>
                    /\ sys_exit(1)
                    /\ UNCHANGED rows
               ELSE /\ rows' = t.tbody[1]
                    /\ stdout' = stdout \o << "Found columns", "Processing rows" >>
                    /\ pc' = "Validating"
                    /\ UNCHANGED exit_code
    /\ UNCHANGED << page, status, table, loop_locals, file, file0, opened >>

\* -------------------------------------------------------------- validate
\* `if not cells: continue`
no_cells(cells) == cells = << >>

\* mutant: a validation error ends the run
on_validation_error_abort ==
    /\ stdout' = Append(stdout, "Validation failed for row")
    /\ outcome' = Append(outcome, "rejected")
    /\ pc' = "Failed"
    /\ exit_code' = << 1 >>
    /\ UNCHANGED entries

\* the `except ValidationError` branch: report the row and continue
on_validation_error ==
    /\ stdout' = Append(stdout, "Validation failed for row")
    /\ outcome' = Append(outcome, "rejected")
    /\ UNCHANGED << entries, pc, exit_code >>

\* One iteration of `for row in rows` (lines 88-113).
ProcessRow ==
    /\ pc = "Validating"
    /\ i < Len(rows)
    /\ i' = i + 1
    /\ LET cells == rows[i + 1] IN
       IF no_cells(cells)
       THEN /\ outcome' = Append(outcome, "skipped")
            /\ UNCHANGED << data, row_dict, entries, stdout, pc, exit_code >>
       ELSE LET d == reconcile(cell_texts(cells), Len(column_names))
                rd == dict_zip(column_names, d)
                entry == GIEntry(rd)
            IN  /\ data' = d
                /\ row_dict' = rd
                /\ IF entry # << >>
                   THEN /\ entries' = Append(entries, model_dump(entry[1]))
                        /\ outcome' = Append(outcome, "accepted")
                        /\ UNCHANGED << stdout, pc, exit_code >>
                   ELSE on_validation_error
    /\ UNCHANGED << page, status, table, column_names, rows, file, file0, opened >>

\* mutant: the empty list is written like any other
no_entries_never(e) == FALSE

\* `if not entries`
no_entries(e) == e = << >>

\* lines 115-117, after the loop
EndOfRows ==
    /\ pc = "Validating"
    /\ i = Len(rows)
    /\ IF no_entries(entries)
       THEN /\ stdout' = Append(stdout, "No valid entries found.")
            /\ sys_exit(0)
       ELSE /\ pc' = "Writing"
            /\ UNCHANGED << stdout, exit_code >>
    /\ UNCHANGED << page, status, table, column_names, rows, loop_locals,
                    file, file0, opened >>

\* ----------------------------------------------------------------- write
\* What the with-block puts into the file when no I/O error interrupts it.
csv_output(fieldnames, rowdicts) ==
    LET w == writerows(rowdicts, fieldnames)
    IN  [ok |-> w.ok, records |-> writeheader(fieldnames) \o w.records]

\* open(output_csv, 'w') raised: nothing was opened
WriteOpenFails ==
    /\ pc = "Writing"
    /\ stdout' = Append(stdout, "Failed to save CSV")
    /\ sys_exit(1)
    /\ UNCHANGED << page, status, table, column_names, rows, loop_locals,
                    file, file0, opened >>

\* the file was opened (and so truncated) and an I/O error interrupted the
\* writes: some prefix of the records reached the file
WriteIOError ==
    /\ pc = "Writing"
    /\ opened' = TRUE
    /\ \E n \in 0..Len(csv_output(column_names, entries).records) :
         file' = [exists |-> TRUE,
                  records |-> SubSeq(csv_output(column_names, entries).records, 1, n)]
    /\ stdout' = Append(stdout, "Failed to save CSV")
    /\ sys_exit(1)
    /\ UNCHANGED << page, status, table, column_names, rows, loop_locals, file0 >>

\* lines 119-129 without an I/O error
Write ==
    /\ pc = "Writing"
    /\ opened' = TRUE
    /\ LET out == csv_output(column_names, entries) IN
       /\ file' = [exists |-> TRUE, records |-> out.records]
       /\ IF out.ok
          THEN /\ stdout' = Append(stdout, "Successfully saved")
               /\ sys_exit(0)
          ELSE /\ stdout' = Append(stdout, "Failed to save CSV")
               /\ sys_exit(1)
    /\ UNCHANGED << page, status, table, column_names, rows, loop_locals, file0 >>

Next ==
    \/ FetchOk
    \/ FetchStatusError
    \/ FetchTransportError
    \/ LocateTable
    \/ Extract
    \/ ProcessRow
    \/ EndOfRows
    \/ WriteOpenFails
    \/ WriteIOError
    \/ Write

Spec == Init /\ [][Next]_vars


\* ================================================================ properties
\* Vocabulary of the properties, stated on the page and on the recorded
\* outcomes rather than through the operators of the program.

IsBlank(raw) == \A k \in 1..Len(raw) : raw[k] \in Whitespace

\* the number of whitespace characters raw begins with, and ends with
Leading(raw) ==
    CHOOSE a \in 0..Len(raw) :
       /\ \A k \in 1..a : raw[k] \in Whitespace
       /\ a < Len(raw) => raw[a + 1] \notin Whitespace
Trailing(raw) ==
    CHOOSE b \in 0..Len(raw) :
       /\ \A k \in (Len(raw) - b + 1)..Len(raw) : raw[k] \in Whitespace
       /\ b < Len(raw) => raw[Len(raw) - b] \notin Whitespace

\* raw without its leading and trailing whitespace
TrimOf(raw) ==
    IF IsBlank(raw) THEN << >>
    ELSE SubSeq(raw, Leading(raw) + 1, Len(raw) - Trailing(raw))

\* the trimmed text of a cell: its text nodes, each trimmed, in order
RECURSIVE TrimmedText(_)
TrimmedText(cell) ==
    IF cell = << >> THEN << >> ELSE TrimOf(Head(cell)) \o TrimmedText(Tail(cell))

BlankCell(cell) == \A k \in 1..Len(cell) : IsBlank(cell[k])

\* the table parts of the page, when present
HasTable == page.table # << >>
HasHead == HasTable /\ page.table[1].thead # << >>
HasBody == HasTable /\ page.table[1].tbody # << >>
HeadCells == page.table[1].thead[1]
BodyRows == page.table[1].tbody[1]
HeaderTexts == [j \in 1..Len(HeadCells) |-> TrimmedText(HeadCells[j])]
DataRows == {r \in 1..Len(BodyRows) : BodyRows[r] # << >>}

\* the body row the k-th accepted record came from
AcceptedRow(k) ==
    CHOOSE r \in 1..Len(outcome) :
       /\ outcome[r] = "accepted"
       /\ Cardinality({q \in 1..r : outcome[q] = "accepted"}) = k

\* the last row that was not skipped: the row `data` and `row_dict` belong to
Processed == {r \in 1..Len(outcome) : outcome[r] # "skipped"}
LastProcessed == Max(Processed)

Positions(label) == {p \in 1..Len(column_names) : column_names[p] = label}

FetchFailed ==
    \/ status # << >> /\ ~(status[1] \in 200..299)
    \/ "An error occurred" \in Range(stdout)
LoopReached == "Processing rows" \in Range(stdout)
Terminated == pc \in {"Done", "Failed"}
NoOutput == ~opened /\ file = file0

\* C1: after a row with at least one cell has been reconciled, data has
\* exactly as many entries as there are headers; its first min(H, cells)
\* entries are the row's trimmed cell texts in order and every entry past
\* the row's cells is the empty string.
C1_Reconciled ==
    Processed # {} =>
       LET cells == rows[LastProcessed]
           H == Len(column_names)
       IN  /\ Len(data) = H
           /\ \A j \in 1..H :
                 data[j] = IF j <= Len(cells) THEN TrimmedText(cells[j]) ELSE << >>

C1_Witness ==
    /\ Processed # {}
    /\ Len(rows[LastProcessed]) = 3
    /\ Len(column_names) = Len(Fields)
    /\ data[1] = <<"Apple", "x">>
    /\ data[2] = <<"40", " ", "!">>
    /\ data[Len(Fields)] = << >>

\* C2: every accepted record has exactly the 13 header labels as keys, every
\* value is a str, and a field whose cell is missing, empty or
\* whitespace-only holds the empty string.
C2_BlankNormalized ==
    \A k \in 1..Len(entries) :
       LET e == entries[k]
           cells == rows[AcceptedRow(k)]
       IN  /\ DOMAIN e = Aliases
           /\ \A a \in Aliases :
                 /\ e[a].type = "str"
                 /\ \A p \in Positions(a) :
                       (p = Max(Positions(a)) /\ (p > Len(cells) \/ BlankCell(cells[p])))
                          => e[a].val = << >>

C2_Witness ==
    \E k \in 1..Len(entries) :
       /\ Len(rows[AcceptedRow(k)]) = Len(Fields)
       /\ \E p \in 1..Len(Fields) :
             /\ rows[AcceptedRow(k)][p] = << <<" ", "\n">> >>
             /\ entries[k][column_names[p]] = PyStr(<< >>)

\* C3: when every row with cells was accepted, there is at least one, and
\* the write succeeded, the file holds one header record equal to the
\* header texts of the page in order, followed by one record per such row.
C3_RoundTrip ==
    (/\ pc = "Done"
     /\ opened
     /\ DataRows # {}
     /\ \A r \in DataRows : outcome[r] = "accepted")
    => /\ Len(file.records) = Cardinality(DataRows) + 1
       /\ file.records[1] = HeaderTexts

C3_Witness ==
    /\ pc = "Done"
    /\ opened
    /\ Cardinality(DataRows) = 2
    /\ Len(file.records) = 3
    /\ Len(file.records[1]) = Len(Fields) + 1

\* C4: with the 13 schema labels as headers, the data line of a fully
\* populated row has at every column the trimmed text of the row's cell at
\* that position.
C4_Positional ==
    (/\ pc = "Done"
     /\ opened
     /\ Len(column_names) = Len(Fields)
     /\ Range(column_names) = Aliases)
    => \A k \in 1..Len(entries) :
          LET cells == rows[AcceptedRow(k)]
          IN  (Len(cells) = Len(Fields) /\ \A p \in 1..Len(cells) : ~BlankCell(cells[p]))
                 => /\ Len(file.records[k + 1]) = Len(Fields)
                    /\ \A p \in 1..Len(Fields) :
                          file.records[k + 1][p] = TrimmedText(cells[p])

C4_Witness ==
    /\ pc = "Done"
    /\ opened
    /\ column_names[1] = <<"Year of test">>
    /\ Len(column_names) = Len(Fields)
    /\ Len(entries) = 1
    /\ Len(rows[AcceptedRow(1)]) = Len(Fields)
    /\ file.records[2][1] = <<"Apple">>
    /\ file.records[2][Len(Fields)] = <<"2008">>

\* C5: a failed fetch, a page without the table, or a table without its
\* header or body section ends the run with exit code 1, and the output
\* file is neither opened nor changed.
C5_FatalBeforeWrite ==
    /\ FetchFailed => (pc = "Failed" /\ exit_code = <<1>> /\ NoOutput)
    /\ (~HasTable \/ ~HasHead \/ ~HasBody) => NoOutput
    /\ (~HasTable /\ pc \notin {"Fetching", "Parsing"})
          => (pc = "Failed" /\ exit_code = <<1>>)
    /\ ((~HasHead \/ ~HasBody) /\ pc \notin {"Fetching", "Parsing", "Extracting"})
          => (pc = "Failed" /\ exit_code = <<1>>)

C5_Witness ==
    /\ status = <<404>>
    /\ pc = "Failed"
    /\ exit_code = <<1>>
    /\ ~opened

\* C6: when the table, its header and its body were found and no row was
\* accepted, the run ends with exit code 0 and without touching the file.
C6_SoftSuccess ==
    (/\ Terminated
     /\ LoopReached
     /\ \A r \in 1..Len(outcome) : outcome[r] # "accepted")
    => (pc = "Done" /\ exit_code = <<0>> /\ NoOutput)

C6_Witness ==
    /\ pc = "Done"
    /\ exit_code = <<0>>
    /\ Len(outcome) = 2
    /\ outcome[1] = "skipped"
    /\ outcome[2] = "rejected"
    /\ ~opened

\* C7: a step that rejects a row leaves the run in Validating with the
\* records unchanged; once the loop is over every body row has an outcome
\* and the records are those of the accepted rows, in document order.
C7_RejectStep ==
    (Len(outcome') = Len(outcome) + 1 /\ outcome'[Len(outcome')] = "rejected")
    => (pc' = "Validating" /\ exit_code' = << >> /\ entries' = entries /\ i' = i + 1)

C7_AfterLoop ==
    /\ (LoopReached /\ pc \in {"Writing", "Done", "Failed"})
          => Len(outcome) = Len(BodyRows)
    /\ Len(entries) = Cardinality({r \in 1..Len(outcome) : outcome[r] = "accepted"})
    /\ \A k \in 1..Len(entries) : \A a \in Aliases :
          \E p \in Positions(a) :
             entries[k][a].val =
                IF p <= Len(rows[AcceptedRow(k)])
                THEN TrimmedText(rows[AcceptedRow(k)][p]) ELSE << >>

C7_PerRowRecovery == [](C7_AfterLoop) /\ [][C7_RejectStep]_vars

C7_Witness ==
    /\ pc = "Done"
    /\ outcome = <<"rejected", "rejected">>
    /\ Len(stdout) > 3

\* C8: a row with cells is rejected exactly when one of the 13 labels is
\* not among the header texts of the page, whatever its cells hold; a row
\* with 3 cells under the 13 labels is accepted with its last 10 fields
\* empty.
C8_RejectionCriterion ==
    outcome # << >> =>
    LET LabelMissing == ~(Aliases \subseteq Range(HeaderTexts)) IN
    \A r \in 1..Len(outcome) :
       /\ outcome[r] = "skipped" <=> rows[r] = << >>
       /\ rows[r] # << >> => (outcome[r] = "rejected" <=> LabelMissing)
       /\ (/\ outcome[r] = "accepted"
           /\ Len(rows[r]) < Len(column_names))
          => \E k \in 1..Len(entries) :
                /\ AcceptedRow(k) = r
                /\ \A p \in (Len(rows[r]) + 1)..Len(column_names) :
                      column_names[p] \in Aliases /\ p = Max(Positions(column_names[p]))
                         => entries[k][column_names[p]] = PyStr(<< >>)

C8_Witness ==
    \E k \in 1..Len(entries) :
       /\ Len(rows[AcceptedRow(k)]) = 3
       /\ Len(column_names) = Len(Fields)
       /\ rows[AcceptedRow(k)][3] = << <<"Acme">> >>
       /\ entries[k][column_names[3]] = PyStr(<<"Acme">>)
       /\ \A p \in 4..Len(Fields) : entries[k][column_names[p]] = PyStr(<< >>)

\* C9: headers with a repeated label are accepted, and the value bound to a
\* label, in the row mapping and in the accepted record, is the reconciled
\* cell at the label's last position.
C9_LastDuplicateWins ==
    /\ (HasHead /\ HasBody /\ pc \notin {"Fetching", "Parsing", "Extracting"}
           /\ status # << >> /\ status[1] \in 200..299)
          => column_names = HeaderTexts
    /\ Processed # {} =>
          /\ DOMAIN row_dict = Range(column_names)
          /\ \A a \in Range(column_names) :
                /\ row_dict[a] = data[Max(Positions(a))]
                /\ (outcome[LastProcessed] = "accepted" /\ a \in Aliases)
                      => entries[Len(entries)][a].val = data[Max(Positions(a))]

C9_Witness ==
    /\ Processed # {}
    /\ Cardinality(Positions(<<"GI">>)) = 2
    /\ outcome[LastProcessed] = "accepted"
    /\ data[2] = <<"40">>
    /\ data[Len(Fields) + 1] = <<"over1">>
    /\ entries[Len(entries)][<<"GI">>] = PyStr(<<"over1">>)

\* C10: every header of the CSV column list is a key of every accepted
\* record.
C10_EveryHeaderIsAKey ==
    \A k \in 1..Len(entries) :
       \A p \in 1..Len(column_names) : column_names[p] \in DOMAIN entries[k]
====
